---- MODULE Spec2Model ----
(***************************************************************************)
(* A model of robor-rs: the Mouse controller of src/src/mouse.rs and the   *)
(* EventEmitter of src/src/event_emitter.rs.                               *)
(*                                                                         *)
(* The operating system is the environment: it holds the screen extents    *)
(* (GetSystemMetrics), the cursor (GetCursorPos / SetCursorPos) and        *)
(* receives the injected input (mouse_event).  Every call the controller   *)
(* makes into it is recorded in last.fx, the effects of the call that is   *)
(* running or ran last, in the order they were made.                       *)
(***************************************************************************)
EXTENDS Integers, Sequences, FiniteSets, TLC

(* i32 *)
MaxI32 == 2147483647
MinI32 == (-MaxI32) - 1

(* Bounds of the model. *)
ScreenW == 1
MaxTicks == 2
MaxListeners == 1
MaxClicks == 1
MaxRegistered == 3
MaxEmits == 2

(* The primary display, a strip one pixel row high beyond row 0, at two    *)
(* horizontal resolutions: GetSystemMetrics is asked again by every bounds *)
(* check, and the answer may have changed.                                 *)
Screens == {<<ScreenW, 1>>, <<ScreenW - 1, 1>>}

(* Coordinates callers pass: one off the screen on either side.            *)
XCoords == (-1) .. (ScreenW + 1)
YCoords == (-1) .. 2

(* Where GetCursorPos may find the cursor when the controller is built: on *)
(* the primary display or left of it (on a second monitor).                *)
StartPoints == {<<0, 0>>, <<-1, 1>>}

(* Offsets of move_relative and drag_and_drop; the extreme ones overflow.  *)
Offsets == {<<0, 0>>, <<1, 0>>, <<-1, 0>>, <<0, 1>>, <<1, -1>>,
            <<MaxI32, 0>>, <<0, MinI32>>}

(* Durations, in milliseconds.                                             *)
Durations == {0, 500, 1000}

(* <<x, y, duration>> of hover: for one second to the origin, to the far  *)
(* side and the far corner of the screen and to points off it, and for no  *)
(* time and for half a second to a point on the screen and to one off it.  *)
HoverTargets ==
    {<<0, 0>>, <<ScreenW, 0>>, <<ScreenW, 1>>, <<ScreenW + 1, 1>>, <<0, 2>>,
     <<-1, 0>>, <<0, -1>>, <<-1, 2>>}
HoverArgs ==
    {<<t[1], t[2], 1000>> : t \in HoverTargets}
    \cup {<<t[1], t[2], d>> : t \in {<<0, 0>>, <<ScreenW + 1, 1>>}, d \in Durations \ {1000}}

(* <<center, radius, duration>> of move_in_circle. *)
Radii == {-1, 0, 1, 2}
CircleArgs ==
    {a \in {<<0, 0>>, <<1, 1>>} \X Radii \X Durations :
        \/ a[3] = 1000 /\ a[2] > 0
        \/ a[3] = 1000 /\ a[1] = <<1, 1>>
        \/ a[2] = 1 /\ a[1] = <<1, 1>>}

(* Event names given to a registry used on its own.                       *)
EventNames == {"event1", "event2"}

(* Click counts of multi_click, amounts of the scroll operations.          *)
Counts == {0, 2}
Amounts == {-2, 0, 1}

(* Amounts of scroll_with_delay: those, and the least i32.                 *)
DelayAmounts == Amounts \cup {MinI32}

VARIABLES
    screen,     \* <<SM_CXSCREEN, SM_CYSCREEN>> as the OS reports them now
    osCursor,   \* the cursor position the OS holds
    position,   \* Mouse.position
    listeners,  \* EventEmitter.listeners: event name -> sequence of listeners
    invoked,    \* listener -> number of times it has run
    registered, \* listener -> the event name it was registered under
    due,        \* listener -> number of times its event has happened since
    timed,      \* the locals of a running hover / move_in_circle loop
    last        \* the call that is running or ran last

vars == <<screen, osCursor, position, listeners, invoked, registered, due,
          timed, last>>

(***************************************************************************)
(* MousePosition                                                           *)
(***************************************************************************)

(* The maximum taken as exclusive. *)
is_out_of_bounds_exclusive(p, scr) ==
    p[1] < 0 \/ p[2] < 0 \/ p[1] >= scr[1] \/ p[2] >= scr[2]

is_out_of_bounds(p, scr) ==
    p[1] < 0 \/ p[2] < 0 \/ p[1] > scr[1] \/ p[2] > scr[2]

(* i32 -> u32 by try_into: x first, then y. *)
to_u32(p) ==
    IF p[1] < 0 THEN [ok |-> FALSE, msg |-> "Failed to convert x to u32"]
    ELSE IF p[2] < 0 THEN [ok |-> FALSE, msg |-> "Failed to convert y to u32"]
    ELSE [ok |-> TRUE, x |-> p[1], y |-> p[2]]

(* u32 `as i32`: the low 32 bits, read as a signed number. *)
as_i32(u) == IF u <= MaxI32 THEN u ELSE ((u - MaxI32) - 1) + MinI32

(* i32 + i32.  A build with overflow checks panics; one without wraps.     *)
AddOverflows(a, b) ==
    \/ b > 0 /\ a > MaxI32 - b
    \/ b < 0 /\ a < MinI32 - b

WrappingAdd(a, b) ==
    IF b > 0 /\ a > MaxI32 - b THEN ((a - MaxI32) - 1) + ((b - MaxI32) - 1)
    ELSE IF b < 0 /\ a < MinI32 - b THEN ((a + MaxI32) + 1) + ((b + MaxI32) + 1)
    ELSE a + b

(***************************************************************************)
(* Calls into the OS                                                       *)
(***************************************************************************)

SetCursorPos(x, y, ok) == [call |-> "SetCursorPos", x |-> x, y |-> y, ok |-> ok]

(* The cursor after the OS has served the calls of fx, in order.           *)
RECURSIVE CursorAfter(_, _)
CursorAfter(cur, fx) ==
    IF fx = <<>> THEN cur
    ELSE LET e == Head(fx) IN
         CursorAfter(IF e.call = "SetCursorPos" /\ e.ok THEN <<e.x, e.y>> ELSE cur,
                     Tail(fx))

mouse_event(flags, x, y, data) ==
    [call |-> "mouse_event", flags |-> flags, x |-> x, y |-> y, data |-> data]

(* A listener running: what a stored closure does when it is called.       *)
Listener(l) == [call |-> "listener", id |-> l]

(* The listeners' counters after the listener runs of fx.                  *)
RECURSIVE InvokedAfter(_, _)
InvokedAfter(inv, fx) ==
    IF fx = <<>> THEN inv
    ELSE LET e == Head(fx) IN
         InvokedAfter(IF e.call = "listener" THEN [inv EXCEPT ![e.id] = @ + 1] ELSE inv,
                      Tail(fx))

(***************************************************************************)
(* EventEmitter                                                            *)
(***************************************************************************)

(* on with the listener put in front of the ones already there.            *)
on_in_front(ls, event_name, l) ==
    IF event_name \in DOMAIN ls
    THEN [ls EXCEPT ![event_name] = <<l>> \o @]
    ELSE ls @@ (event_name :> <<l>>)

(* entry(name).or_insert(Vec::new()).push(listener) *)
on(ls, event_name, l) ==
    IF event_name \in DOMAIN ls
    THEN [ls EXCEPT ![event_name] = Append(@, l)]
    ELSE ls @@ (event_name :> <<l>>)

(* The listener runs of emit(event_name), in the order they are made.      *)
emit(ls, event_name) ==
    IF event_name \in DOMAIN ls
    THEN [i \in 1 .. Len(ls[event_name]) |-> Listener(ls[event_name][i])]
    ELSE <<>>

(* EventType::Click.to_string() *)
EventType_Click == "Click"

(***************************************************************************)
(* Mouse                                                                   *)
(***************************************************************************)

Outcome(res, pos, fx) == [result |-> res, position |-> pos, fx |-> fx]

get_position(pos) == <<pos[1], pos[2]>>

(* move_to without `self.position = new_position`. *)
move_to_not_stored(pos, scr, x, y, osOk) ==
    IF x < 0 \/ y < 0 THEN Outcome("InvalidInput", pos, <<>>)
    ELSE IF is_out_of_bounds(<<x, y>>, scr) THEN Outcome("OutOfBounds", pos, <<>>)
    ELSE Outcome("Ok", pos, <<SetCursorPos(x, y, osOk)>>)

(* move_to with the bounds check before the check of the signs. *)
move_to_bounds_first(pos, scr, x, y, osOk) ==
    IF is_out_of_bounds(<<x, y>>, scr) THEN Outcome("OutOfBounds", pos, <<>>)
    ELSE IF x < 0 \/ y < 0 THEN Outcome("InvalidInput", pos, <<>>)
    ELSE Outcome("Ok", <<x, y>>, <<SetCursorPos(x, y, osOk)>>)

(* move_to on a controller at pos, the screen being scr; osOk is what      *)
(* SetCursorPos returns, which the code does not look at.                  *)
move_to(pos, scr, x, y, osOk) ==
    IF x < 0 \/ y < 0 THEN Outcome("InvalidInput", pos, <<>>)
    ELSE LET new_position == <<x, y>> IN
         IF is_out_of_bounds(new_position, scr)
         THEN Outcome("OutOfBounds", pos, <<>>)
         ELSE LET u == to_u32(new_position) IN
              IF ~u.ok THEN Outcome("ConversionError", pos, <<>>)
              ELSE Outcome("Ok", new_position,
                           <<SetCursorPos(as_i32(u.x), as_i32(u.y), osOk)>>)

(* move_relative with the target brought onto the screen, not rejected.    *)
move_relative_clamped(pos, scr, distance_x, distance_y, osOk, checks) ==
    IF checks /\ (AddOverflows(pos[1], distance_x) \/ AddOverflows(pos[2], distance_y))
    THEN Outcome("panic", pos, <<>>)
    ELSE LET x == WrappingAdd(pos[1], distance_x)
             y == WrappingAdd(pos[2], distance_y)
         IN  move_to(pos, scr,
                     IF x < 0 THEN 0 ELSE IF x > scr[1] THEN scr[1] ELSE x,
                     IF y < 0 THEN 0 ELSE IF y > scr[2] THEN scr[2] ELSE y, osOk)

(* checks: the build panics on overflow; otherwise the sums wrap.          *)
move_relative(pos, scr, distance_x, distance_y, osOk, checks) ==
    IF checks /\ (AddOverflows(pos[1], distance_x) \/ AddOverflows(pos[2], distance_y))
    THEN Outcome("panic", pos, <<>>)
    ELSE move_to(pos, scr, WrappingAdd(pos[1], distance_x),
                 WrappingAdd(pos[2], distance_y), osOk)

offset(p, distance_x, distance_y) ==
    <<WrappingAdd(p[1], distance_x), WrappingAdd(p[2], distance_y)>>

(* click with the event emitted before the input is injected.             *)
click_emits_first(pos, scr, ls) ==
    IF is_out_of_bounds(pos, scr) THEN Outcome("OutOfBounds", pos, <<>>)
    ELSE LET u == to_u32(pos) IN
         IF ~u.ok THEN Outcome("ConversionError", pos, <<>>)
         ELSE Outcome("Ok", pos,
                      emit(ls, EventType_Click)
                      \o <<mouse_event("LEFTDOWN", u.x, u.y, 0),
                            mouse_event("LEFTUP", u.x, u.y, 0)>>)

click(pos, scr, ls) ==
    IF is_out_of_bounds(pos, scr) THEN Outcome("OutOfBounds", pos, <<>>)
    ELSE LET u == to_u32(pos) IN
         IF ~u.ok THEN Outcome("ConversionError", pos, <<>>)
         ELSE Outcome("Ok", pos,
                      <<mouse_event("LEFTDOWN", u.x, u.y, 0),
                        mouse_event("LEFTUP", u.x, u.y, 0)>>
                      \o emit(ls, EventType_Click))

(* scr2: the screen when the second click checks it, 50 ms later.          *)
double_click(pos, scr, scr2, ls) ==
    LET first == click(pos, scr, ls) IN
    IF first.result # "Ok" THEN first
    ELSE LET second == click(pos, scr2, ls) IN
         Outcome(second.result, pos, first.fx \o second.fx)

multi_click(pos, scr, count) ==
    IF is_out_of_bounds(pos, scr) THEN Outcome("OutOfBounds", pos, <<>>)
    ELSE LET u == to_u32(pos) IN
         IF ~u.ok THEN Outcome("ConversionError", pos, <<>>)
         ELSE Outcome("Ok", pos,
                      [i \in 1 .. 2 * count |->
                          IF i % 2 = 1 THEN mouse_event("LEFTDOWN", u.x, u.y, 0)
                          ELSE mouse_event("LEFTUP", u.x, u.y, 0)])

right_click(pos, scr) ==
    IF is_out_of_bounds(pos, scr) THEN Outcome("OutOfBounds", pos, <<>>)
    ELSE LET u == to_u32(pos) IN
         IF ~u.ok THEN Outcome("ConversionError", pos, <<>>)
         ELSE Outcome("Ok", pos,
                      <<mouse_event("RIGHTDOWN", u.x, u.y, 0),
                        mouse_event("RIGHTUP", u.x, u.y, 0)>>)

(* The wheel delta is kept as the i32 whose bits `amount as u32` carries.  *)
scroll(pos, scr, amount) ==
    IF is_out_of_bounds(pos, scr) THEN Outcome("OutOfBounds", pos, <<>>)
    ELSE LET u == to_u32(pos) IN
         IF ~u.ok THEN Outcome("ConversionError", pos, <<>>)
         ELSE Outcome("Ok", pos, <<mouse_event("WHEEL", u.x, u.y, amount)>>)

scroll_horizontal(pos, distance) ==
    Outcome("Ok", pos, <<mouse_event("HWHEEL", 0, 0, distance)>>)

signum(a) == IF a > 0 THEN 1 ELSE IF a < 0 THEN -1 ELSE 0
abs(a) == IF a < 0 THEN -a ELSE a
min(a, b) == IF a <= b THEN a ELSE b

(* i32::abs and i32 * i32 in a build without overflow checks: the least   *)
(* i32 has no positive counterpart and stays what it is.  b is 1 or -1.    *)
WrappingAbs(a) == IF a = MinI32 THEN MinI32 ELSE abs(a)
WrappingMul(a, b) == IF a = MinI32 /\ b = -1 THEN MinI32 ELSE a * b

(* The loop of scroll_with_delay: the wheel events still to be injected.   *)
RECURSIVE ScrollLoop(_, _, _, _)
ScrollLoop(remaining, amount, x, y) ==
    IF remaining = 0 THEN <<>>
    ELSE LET scroll_amount == min(remaining, abs(signum(amount)))
             scroll_direction == IF amount < 0 THEN -1 ELSE 1
         IN  <<mouse_event("WHEEL", x, y, WrappingMul(scroll_amount, scroll_direction))>>
             \o ScrollLoop(remaining - scroll_amount, amount, x, y)

(* checks: the build panics on the overflow of amount.abs().               *)
scroll_with_delay(pos, scr, amount, checks) ==
    IF is_out_of_bounds(pos, scr) THEN Outcome("OutOfBounds", pos, <<>>)
    ELSE LET u == to_u32(pos) IN
         IF ~u.ok THEN Outcome("ConversionError", pos, <<>>)
         ELSE IF checks /\ amount = MinI32 THEN Outcome("panic", pos, <<>>)
         ELSE Outcome("Ok", pos, ScrollLoop(WrappingAbs(amount), amount, u.x, u.y))

(* drag_and_drop with only the current position checked.                   *)
drag_and_drop_unchecked(pos, scr, distance_x, distance_y, checks) ==
    IF checks /\ (AddOverflows(pos[1], distance_x) \/ AddOverflows(pos[2], distance_y))
    THEN Outcome("panic", pos, <<>>)
    ELSE LET new_position == offset(pos, distance_x, distance_y) IN
         IF is_out_of_bounds(pos, scr) THEN Outcome("OutOfBounds", pos, <<>>)
         ELSE LET c == to_u32(pos)
                  n == to_u32(new_position)
              IN  IF ~c.ok \/ ~n.ok THEN Outcome("ConversionError", pos, <<>>)
                  ELSE Outcome("Ok", new_position,
                               <<mouse_event("LEFTDOWN", c.x, c.y, 0),
                                 mouse_event("LEFTUP", n.x, n.y, 0)>>)

drag_and_drop(pos, scr, distance_x, distance_y, checks) ==
    IF checks /\ (AddOverflows(pos[1], distance_x) \/ AddOverflows(pos[2], distance_y))
    THEN Outcome("panic", pos, <<>>)
    ELSE LET new_position == offset(pos, distance_x, distance_y) IN
         IF is_out_of_bounds(pos, scr) \/ is_out_of_bounds(new_position, scr)
         THEN Outcome("OutOfBounds", pos, <<>>)
         ELSE LET c == to_u32(pos)
                  n == to_u32(new_position)
              IN  IF ~c.ok \/ ~n.ok THEN Outcome("ConversionError", pos, <<>>)
                  ELSE Outcome("Ok", new_position,
                               <<mouse_event("LEFTDOWN", c.x, c.y, 0),
                                 mouse_event("LEFTUP", n.x, n.y, 0)>>)

(***************************************************************************)
(* The timed loops.  Wall-clock time is the environment's: a turn of hover *)
(* sees any progress elapsed/duration not before the last one, a turn of   *)
(* move_in_circle any angle not before the last.  The clock is read again  *)
(* after the test of the loop, so a turn may find the time already up      *)
(* (progress in [1, 2), an angle in the quarter past 2 pi): it is the last.*)
(***************************************************************************)

(* Duration::as_secs(): whole seconds of a duration given in milliseconds. *)
as_secs(duration) == duration \div 1000

(* f64 `as i32` of the quotient a / b, b > 0: towards zero.                *)
Trunc(a, b) == IF a >= 0 THEN a \div b ELSE -((-a) \div b)

(* Progress is counted in steps of 1 / HoverDen: fine enough to tell apart *)
(* every pair of points the loop can compute on the way.                   *)
HoverDen(start, x, y) ==
    2 * (IF x = start[1] THEN 1 ELSE abs(x - start[1]))
      * (IF y = start[2] THEN 1 ELSE abs(y - start[2]))

(* <<current_x, current_y>> at progress num / HoverDen.  With no distance  *)
(* to go, current_distance / total_distance is 0.0 / 0.0 = NaN, and        *)
(* NaN as i32 is 0.                                                        *)
HoverPoint(start, x, y, num) ==
    IF start = <<x, y>> THEN <<0, 0>>
    ELSE LET den == HoverDen(start, x, y) IN
         <<Trunc(start[1] * den + num * (x - start[1]), den),
           Trunc(start[2] * den + num * (y - start[2]), den)>>

(* The checks of hover before its loop. *)
hover(scr, x, y, duration) ==
    IF x < 0 \/ y < 0 \/ as_secs(duration) = 0 THEN "InvalidInput"
    ELSE IF is_out_of_bounds(<<x, y>>, scr) THEN "OutOfBounds"
    ELSE "running"

(* The checks of move_in_circle before its loop. *)
move_in_circle(radius, duration) ==
    IF radius <= 0 \/ as_secs(duration) = 0 THEN "InvalidInput" ELSE "running"

(* <<(radius * cos a) as i32, (radius * sin a) as i32>> for the angles a   *)
(* of quarter q of the turn (quarter 4 is quarter 0 again): <<c, s>> is    *)
(* computed there exactly when the circle passes through the unit square   *)
(* at <<|c|, |s|>>.                                                        *)
CirclePoints(radius, q) ==
    {p \in ((-radius) .. radius) \X ((-radius) .. radius) :
        /\ p[1] * p[1] + p[2] * p[2] <= radius * radius
        /\ (abs(p[1]) + 1) * (abs(p[1]) + 1) + (abs(p[2]) + 1) * (abs(p[2]) + 1)
              > radius * radius
        /\ CASE q % 4 = 0 -> p[1] >= 0 /\ p[2] >= 0
             [] q % 4 = 1 -> p[1] <= 0 /\ p[2] >= 0
             [] q % 4 = 2 -> p[1] <= 0 /\ p[2] <= 0
             [] OTHER -> p[1] >= 0 /\ p[2] <= 0}

(* How far into quadrant q the point p lies, in the sense of rotation.     *)
CircleRank(radius, q, p) ==
    CASE q % 4 = 0 -> (radius - p[1]) + p[2]
      [] q % 4 = 1 -> (-p[1]) + (radius - p[2])
      [] q % 4 = 2 -> (radius + p[1]) + (-p[2])
      [] OTHER -> p[1] + (radius + p[2])

(***************************************************************************)
(* The calls, as steps of the program.  last is what the caller and the OS *)
(* saw of the call that is running or ran last: which operation, what it   *)
(* returned, and the calls it made into the OS and the listeners.          *)
(***************************************************************************)

Idle == [kind |-> "idle"]

Call(op, res, fx) == [op |-> op, result |-> res, fx |-> fx]

Alive == last.result # "panic"
Ready == Alive /\ timed = Idle

(* A call that runs to its end in one step.                                *)
Finish(op, out) ==
    /\ position' = out.position
    /\ osCursor' = CursorAfter(osCursor, out.fx)
    /\ invoked' = InvokedAfter(invoked, out.fx)
    /\ last' = Call(op, out.result, out.fx)

(* n more successful clicks: every Click listener is due n more runs.      *)
Due(n) == [l \in DOMAIN due |-> IF registered[l] = EventType_Click THEN due[l] + n
                                 ELSE due[l]]

Bounded == \A l \in DOMAIN due : due[l] < MaxClicks

(* Whether the build panics when x + distance_x or y + distance_y          *)
(* overflows: it matters only when one does.                               *)
Builds(pos, d) ==
    IF AddOverflows(pos[1], d[1]) \/ AddOverflows(pos[2], d[2]) THEN BOOLEAN ELSE {FALSE}

MoveTo(x, y, osOk) ==
    /\ Ready
    /\ Finish("move_to", move_to(position, screen, x, y, osOk))
    /\ UNCHANGED <<screen, listeners, registered, due, timed>>

MoveRelative(d, osOk, checks) ==
    /\ Ready
    /\ Finish("move_relative", move_relative(position, screen, d[1], d[2], osOk, checks))
    /\ UNCHANGED <<screen, listeners, registered, due, timed>>

DragAndDrop(d, checks) ==
    /\ Ready
    /\ Finish("drag_and_drop", drag_and_drop(position, screen, d[1], d[2], checks))
    /\ UNCHANGED <<screen, listeners, registered, due, timed>>

(* Mouse::on(EventType::Click, listener), the listener a new closure.      *)
On ==
    /\ Ready
    /\ Len(registered) < MaxListeners
    /\ LET l == Len(registered) + 1 IN
          /\ listeners' = on(listeners, EventType_Click, l)
          /\ registered' = Append(registered, EventType_Click)
          /\ invoked' = Append(invoked, 0)
          /\ due' = Append(due, 0)
    /\ last' = Call("on", "Ok", <<>>)
    /\ UNCHANGED <<screen, osCursor, position, timed>>

Click ==
    /\ Ready /\ Bounded
    /\ LET out == click(position, screen, listeners) IN
          /\ Finish("click", out)
          /\ due' = Due(IF out.result = "Ok" THEN 1 ELSE 0)
    /\ UNCHANGED <<screen, listeners, registered, timed>>

DoubleClick(scr2) ==
    /\ Ready /\ Bounded
    /\ LET first == click(position, screen, listeners)
           second == click(position, scr2, listeners)
       IN  /\ Finish("double_click", double_click(position, screen, scr2, listeners))
           /\ due' = Due(IF first.result # "Ok" THEN 0
                         ELSE IF second.result # "Ok" THEN 1 ELSE 2)
           /\ screen' = IF first.result = "Ok" THEN scr2 ELSE screen
    /\ UNCHANGED <<listeners, registered, timed>>

MultiClick(count) ==
    /\ Ready
    /\ Finish("multi_click", multi_click(position, screen, count))
    /\ UNCHANGED <<screen, listeners, registered, due, timed>>

RightClick ==
    /\ Ready
    /\ Finish("right_click", right_click(position, screen))
    /\ UNCHANGED <<screen, listeners, registered, due, timed>>

Scroll(amount) ==
    /\ Ready
    /\ Finish("scroll", scroll(position, screen, amount))
    /\ UNCHANGED <<screen, listeners, registered, due, timed>>

ScrollHorizontal(distance) ==
    /\ Ready
    /\ Finish("scroll_horizontal", scroll_horizontal(position, distance))
    /\ UNCHANGED <<screen, listeners, registered, due, timed>>

ScrollWithDelay(amount, checks) ==
    /\ Ready
    /\ Finish("scroll_with_delay", scroll_with_delay(position, screen, amount, checks))
    /\ UNCHANGED <<screen, listeners, registered, due, timed>>

(* hover is called: it returns at once, or enters its loop.                *)
Hover(x, y, duration) ==
    /\ Ready
    /\ LET res == hover(screen, x, y, duration) IN
          /\ last' = Call("hover", res, <<>>)
          /\ timed' = IF res = "running"
                      THEN [kind |-> "hover", x |-> x, y |-> y, start |-> position,
                            at |-> 0, ticks |-> 0]
                      ELSE Idle
    /\ UNCHANGED <<screen, osCursor, position, listeners, invoked, registered, due>>

(* A move_to of a running loop whose failure is passed over.               *)
Step_skips(x, y, osOk, then) ==
    LET out == move_to(position, screen, x, y, osOk) IN
    /\ position' = out.position
    /\ osCursor' = CursorAfter(osCursor, out.fx)
    /\ last' = [last EXCEPT !.fx = IF out.result = "Ok" THEN out.fx ELSE @,
                            !.result = then.result]
    /\ timed' = then.timed

(* One move_to of a running loop.  Its failure ends the call.  Of a loop,  *)
(* last.fx keeps the calls of the latest move_to that succeeded.           *)
Step(x, y, osOk, then) ==
    LET out == move_to(position, screen, x, y, osOk) IN
    /\ position' = out.position
    /\ osCursor' = CursorAfter(osCursor, out.fx)
    /\ last' = [last EXCEPT !.fx = IF out.result = "Ok" THEN out.fx ELSE @,
                            !.result = IF out.result = "Ok" THEN then.result
                                       ELSE out.result]
    /\ timed' = IF out.result = "Ok" THEN then.timed ELSE Idle

(* One turn of the loop of hover, at progress num / HoverDen.  The points  *)
(* computed change with the progress in one direction only, so the least   *)
(* progress of those that compute the same point stands for them all.      *)
HoverTick(num, osOk) ==
    /\ Alive /\ timed.kind = "hover" /\ timed.ticks < MaxTicks
    /\ timed.at < HoverDen(timed.start, timed.x, timed.y)
    /\ num \in timed.at .. (2 * HoverDen(timed.start, timed.x, timed.y) - 1)
    /\ num = 0 \/ HoverPoint(timed.start, timed.x, timed.y, num - 1)
                     # HoverPoint(timed.start, timed.x, timed.y, num)
    /\ LET p == HoverPoint(timed.start, timed.x, timed.y, num) IN
          Step(p[1], p[2], osOk,
               [result |-> "running",
                timed |-> [timed EXCEPT !.at = num, !.ticks = @ + 1]])
    /\ UNCHANGED <<screen, listeners, invoked, registered, due>>

(* The loop of hover has ended: the final move_to(x, y).                   *)
HoverEnd(osOk) ==
    /\ Alive /\ timed.kind = "hover"
    /\ Step(timed.x, timed.y, osOk, [result |-> "Ok", timed |-> Idle])
    /\ UNCHANGED <<screen, listeners, invoked, registered, due>>

MoveInCircle(c, radius, duration) ==
    /\ Ready
    /\ LET res == move_in_circle(radius, duration) IN
          /\ last' = Call("move_in_circle", res, <<>>)
          /\ timed' = IF res = "running"
                      THEN [kind |-> "circle", x |-> c[1], y |-> c[2],
                            radius |-> radius, at |-> <<0, 0>>, ticks |-> 0]
                      ELSE Idle
    /\ UNCHANGED <<screen, osCursor, position, listeners, invoked, registered, due>>

(* One turn of the loop of move_in_circle, the angle in quadrant q and the *)
(* offsets computed from it p.                                             *)
CircleTick(q, p, osOk) ==
    /\ Alive /\ timed.kind = "circle" /\ timed.ticks < MaxTicks
    /\ timed.at[1] < 4
    /\ q >= timed.at[1]
    /\ p \in CirclePoints(timed.radius, q)
    /\ LET rank == CircleRank(timed.radius, q, p) IN
          /\ q = timed.at[1] => rank >= timed.at[2]
          /\ Step(timed.x + p[1], timed.y + p[2], osOk,
                  [result |-> "running",
                   timed |-> [timed EXCEPT !.at = <<q, rank>>, !.ticks = @ + 1]])
    /\ UNCHANGED <<screen, listeners, invoked, registered, due>>

(* The loop of move_in_circle has ended.                                   *)
CircleEnd ==
    /\ Alive /\ timed.kind = "circle"
    /\ last' = [last EXCEPT !.result = "Ok"]
    /\ timed' = Idle
    /\ UNCHANGED <<screen, osCursor, position, listeners, invoked, registered, due>>

(***************************************************************************)
(* The environment                                                         *)
(***************************************************************************)

ScreenChange ==
    /\ Alive
    /\ screen' \in Screens \ {screen}
    /\ UNCHANGED <<osCursor, position, listeners, invoked, registered, due, timed, last>>

(***************************************************************************)
(* Mouse::new(): position is what GetCursorPos reports, the registry is    *)
(* empty.                                                                  *)
(***************************************************************************)
Init ==
    /\ screen \in Screens
    /\ osCursor \in StartPoints
    /\ position = osCursor
    /\ listeners = <<>>
    /\ invoked = <<>>
    /\ registered = <<>>
    /\ due = <<>>
    /\ timed = Idle
    /\ last = Call("new", "Ok", <<>>)

(* The offsets a turn of the loop of move_in_circle can compute.           *)
CircleOffsets ==
    UNION {CirclePoints(r, q) : r \in {r \in Radii : r > 0}, q \in 0 .. 3}

(* The calls that move the pointer, SetCursorPos answering with one of Os. *)
MoveCalls(Os) ==
    \/ \E x \in XCoords, y \in YCoords, osOk \in Os : MoveTo(x, y, osOk)
    \/ \E d \in Offsets, osOk \in Os : \E checks \in Builds(position, d) :
          MoveRelative(d, osOk, checks)
    \/ \E d \in Offsets : \E checks \in Builds(position, d) : DragAndDrop(d, checks)

(* The calls that inject input at the pointer or register a listener.      *)
InputCalls ==
    \/ On
    \/ Click
    \/ \E scr2 \in Screens : DoubleClick(scr2)
    \/ \E count \in Counts : MultiClick(count)
    \/ RightClick
    \/ \E amount \in Amounts : Scroll(amount)
    \/ \E distance \in Amounts : ScrollHorizontal(distance)
    \/ \E amount \in DelayAmounts :
          \E checks \in IF amount = MinI32 THEN BOOLEAN ELSE {FALSE} :
             ScrollWithDelay(amount, checks)

(* The timed loops. *)
TimedCalls(Os) ==
    \/ \E a \in HoverArgs : Hover(a[1], a[2], a[3])
    \/ \E num \in 0 .. (4 * (ScreenW + 1)), osOk \in Os : HoverTick(num, osOk)
    \/ \E osOk \in Os : HoverEnd(osOk)
    \/ \E a \in CircleArgs : MoveInCircle(a[1], a[2], a[3])
    \/ \E q \in 0 .. 4, p \in CircleOffsets, osOk \in Os : CircleTick(q, p, osOk)
    \/ CircleEnd

(* The whole controller, on an OS whose SetCursorPos succeeds.             *)
Next == MoveCalls({TRUE}) \/ InputCalls \/ TimedCalls({TRUE}) \/ ScreenChange

Spec == Init /\ [][Next]_vars

(* A program that only moves the pointer; SetCursorPos may fail (the       *)
(* calling thread is not on the input desktop).                            *)
MoveNext == MoveCalls(BOOLEAN) \/ ScreenChange

MoveSpec == Init /\ [][MoveNext]_vars

(* A program that moves the pointer, injects input and registers           *)
(* listeners, and runs no timed loop.                                      *)
ClickNext == MoveCalls({TRUE}) \/ InputCalls \/ ScreenChange

ClickSpec == Init /\ [][ClickNext]_vars

(* A program that moves the pointer with move_to and the timed loops.      *)
TimedNext ==
    \/ \E x \in XCoords, y \in YCoords, osOk \in BOOLEAN : MoveTo(x, y, osOk)
    \/ TimedCalls(BOOLEAN)
    \/ ScreenChange

TimedSpec == Init /\ [][TimedNext]_vars

(* The whole controller, built with the cursor on the primary display,    *)
(* whose resolution then stays what it is; SetCursorPos may fail.          *)
StableInit == Init /\ ~is_out_of_bounds(position, screen)

StableNext ==
    \/ MoveCalls(BOOLEAN)
    \/ On
    \/ Click
    \/ DoubleClick(screen)
    \/ \E count \in Counts : MultiClick(count)
    \/ RightClick
    \/ \E amount \in Amounts : Scroll(amount)
    \/ \E distance \in Amounts : ScrollHorizontal(distance)
    \/ \E amount \in DelayAmounts :
          \E checks \in IF amount = MinI32 THEN BOOLEAN ELSE {FALSE} :
             ScrollWithDelay(amount, checks)
    \/ TimedCalls(BOOLEAN)

StableSpec == StableInit /\ [][StableNext]_vars

(***************************************************************************)
(* An EventEmitter used on its own: EventEmitter::new(), then on and emit  *)
(* in any order.                                                           *)
(***************************************************************************)

EmitterOn(event_name) ==
    /\ Len(registered) < MaxRegistered
    /\ LET l == Len(registered) + 1 IN
          /\ listeners' = on(listeners, event_name, l)
          /\ registered' = Append(registered, event_name)
          /\ invoked' = Append(invoked, 0)
          /\ due' = Append(due, 0)
    /\ last' = Call("on", "Ok", <<>>)
    /\ UNCHANGED <<screen, osCursor, position, timed>>

EmitterEmit(event_name) ==
    /\ \A l \in DOMAIN due : due[l] < MaxEmits
    /\ LET fx == emit(listeners, event_name) IN
          /\ invoked' = InvokedAfter(invoked, fx)
          /\ last' = Call("emit", "Ok", fx)
    /\ due' = [l \in DOMAIN due |-> IF registered[l] = event_name THEN due[l] + 1
                                     ELSE due[l]]
    /\ UNCHANGED <<screen, osCursor, position, listeners, registered, timed>>

EmitterInit ==
    /\ screen = <<ScreenW, 1>>
    /\ osCursor = <<0, 0>>
    /\ position = osCursor
    /\ listeners = <<>>
    /\ invoked = <<>>
    /\ registered = <<>>
    /\ due = <<>>
    /\ timed = Idle
    /\ last = Call("new", "Ok", <<>>)

EmitterNext ==
    \/ \E event_name \in EventNames : EmitterOn(event_name)
    \/ \E event_name \in EventNames : EmitterEmit(event_name)

EmitterSpec == EmitterInit /\ [][EmitterNext]_vars

(***************************************************************************)
(* Properties                                                              *)
(***************************************************************************)

(* C1: move_to(x, y) with 0 <= x <= width and 0 <= y <= height returns Ok  *)
(* from any state of the controller, and get_position() right after it     *)
(* returns exactly (x, y).                                                 *)
C1_MoveToInBounds ==
    [][\A x \in XCoords, y \in YCoords, osOk \in BOOLEAN :
          (/\ x >= 0 /\ y >= 0 /\ x <= screen[1] /\ y <= screen[2]
           /\ MoveTo(x, y, osOk))
          => /\ last'.result = "Ok"
             /\ get_position(position') = <<x, y>>]_vars

(* A move_to to the far corner of the screen has returned, from somewhere  *)
(* else.                                                                   *)
C1_Witness ==
    /\ last.op = "move_to" /\ last.result = "Ok"
    /\ position = <<screen[1], screen[2]>>

(* C2: move_to(x, y) with x < 0 or y < 0 returns InvalidInput, whatever    *)
(* the other coordinate, makes no call into the OS and leaves              *)
(* current_position as it was.                                             *)
C2_MoveToNegative ==
    [][\A x \in XCoords, y \in YCoords, osOk \in BOOLEAN :
          ((x < 0 \/ y < 0) /\ MoveTo(x, y, osOk))
          => /\ last'.result = "InvalidInput"
             /\ last'.fx = <<>>
             /\ osCursor' = osCursor
             /\ position' = position]_vars

C2_Witness == last.op = "move_to" /\ last.result = "InvalidInput" /\ last.fx = <<>>

(* C3: for x >= 0 and y >= 0, move_to(x, y) returns OutOfBounds exactly    *)
(* when x > width or y > height (width and height themselves are           *)
(* accepted, width + 1 and height + 1 are not); when it does, it makes no  *)
(* call into the OS and leaves current_position as it was.                 *)
C3_MoveToBounds ==
    [][\A x \in XCoords, y \in YCoords, osOk \in BOOLEAN :
          (x >= 0 /\ y >= 0 /\ MoveTo(x, y, osOk))
          => /\ last'.result = "OutOfBounds" <=> (x > screen[1] \/ y > screen[2])
             /\ last'.result = "OutOfBounds"
                   => /\ last'.fx = <<>>
                      /\ osCursor' = osCursor
                      /\ position' = position
             /\ (x = screen[1] /\ y = screen[2]) => last'.result = "Ok"
             /\ (x = screen[1] + 1 \/ y = screen[2] + 1) => last'.result = "OutOfBounds"]_vars

C3_Witness ==
    /\ last.op = "move_to" /\ last.result = "OutOfBounds" /\ last.fx = <<>>
    /\ ~is_out_of_bounds(position, screen)

(* p + d, where neither sum leaves the range of i32.                       *)
InRange(p, d) == ~AddOverflows(p[1], d[1]) /\ ~AddOverflows(p[2], d[2])
Target(p, d) == <<p[1] + d[1], p[2] + d[2]>>

(* p + d lies off the screen scr; a sum beyond the range of i32 lies       *)
(* beyond every screen.                                                    *)
OffScreen(p, d, scr) == ~InRange(p, d) \/ is_out_of_bounds(Target(p, d), scr)

(* C4: current_position is the position read from the OS at construction   *)
(* until a position-changing call succeeds, and then the target of the     *)
(* most recent one that did: a successful move_to(x, y) leaves <<x, y>>, a *)
(* successful move_relative or drag_and_drop current + (dx, dy), a move_to *)
(* step of hover or move_in_circle the point it moved to, both coordinates *)
(* at once; every failing call, every click, double_click, multi_click,    *)
(* right_click, scroll, scroll_with_delay, scroll_horizontal and every     *)
(* registration of a listener leaves it as it was, and nothing else        *)
(* changes it.                                                             *)
C4_CurrentPosition ==
    /\ position = osCursor
    /\ [][/\ last'.result \notin {"Ok", "running"} => position' = position
          /\ last'.op \in {"new", "on", "click", "double_click", "multi_click",
                           "right_click", "scroll", "scroll_with_delay",
                           "scroll_horizontal"}
                => position' = position
          /\ (last'.op = "move_to" /\ last'.result = "Ok")
                => \A x \in XCoords, y \in YCoords :
                      MoveTo(x, y, TRUE) => get_position(position') = <<x, y>>
          /\ (last'.op = "move_relative" /\ last'.result = "Ok")
                => \A d \in Offsets : \A checks \in Builds(position, d) :
                      MoveRelative(d, TRUE, checks)
                      => InRange(position, d) /\ position' = Target(position, d)
          /\ (last'.op = "drag_and_drop" /\ last'.result = "Ok")
                => \A d \in Offsets : \A checks \in Builds(position, d) :
                      DragAndDrop(d, checks)
                      => InRange(position, d) /\ position' = Target(position, d)
          /\ (last'.op = "hover" /\ last'.result = "running" /\ timed = Idle)
                => position' = position
          /\ (last'.op = "hover" /\ last'.result = "running" /\ timed # Idle)
                => (HoverTick(timed'.at, TRUE)
                      => position' = HoverPoint(timed.start, timed.x, timed.y, timed'.at))
          /\ (last'.op = "hover" /\ last'.result = "Ok" /\ HoverEnd(TRUE))
                => position' = <<timed.x, timed.y>>
          /\ (last'.op = "move_in_circle" /\ last'.result = "running" /\ timed = Idle)
                => position' = position
          /\ (last'.op = "move_in_circle" /\ last'.result = "running" /\ timed # Idle)
                => \A p \in CirclePoints(timed.radius, timed'.at[1]) :
                      (/\ CircleRank(timed.radius, timed'.at[1], p) = timed'.at[2]
                       /\ CircleTick(timed'.at[1], p, TRUE))
                      => position' = <<timed.x + p[1], timed.y + p[2]>>
          /\ (last'.op = "move_in_circle" /\ CircleEnd) => position' = position
          /\ position' # position
                => /\ last'.result \in {"Ok", "running"}
                   /\ \/ last'.op = "move_to" /\ MoveTo(position'[1], position'[2], TRUE)
                      \/ /\ last'.op = "move_relative"
                         /\ \E d \in Offsets : MoveRelative(d, TRUE, FALSE)
                      \/ /\ last'.op = "drag_and_drop"
                         /\ \E d \in Offsets : DragAndDrop(d, FALSE)
                      \/ timed'.kind = "hover" /\ HoverTick(timed'.at, TRUE)
                      \/ last'.op = "hover" /\ HoverEnd(TRUE)
                      \/ /\ timed'.kind = "circle"
                         /\ \E p \in CirclePoints(timed.radius, timed'.at[1]) :
                               CircleTick(timed'.at[1], p, TRUE)]_vars

(* A move_relative has failed after a drag_and_drop had succeeded:         *)
(* current_position is still where the drag left it, which is not where    *)
(* the OS holds the cursor.                                                *)
C4_Witness ==
    /\ last.op = "move_relative" /\ last.result = "OutOfBounds"
    /\ position # osCursor
    /\ ~is_out_of_bounds(position, screen)

(* The listeners registered under event_name so far, in the order of their *)
(* registration.                                                           *)
RegisteredUnder(event_name) ==
    SelectSeq([l \in 1 .. Len(registered) |-> l],
              LAMBDA l : registered[l] = event_name)

(* C5: on one registry, under any interleaving of on and emit, emit(n)     *)
(* runs exactly the listeners registered under n before it, each once, in  *)
(* the order of their registration, and no listener of another name; with  *)
(* no listener under n it runs nothing and does not fail.  So a listener   *)
(* has run as many times as its name was emitted since it was registered,  *)
(* and no listener is ever removed.                                        *)
C5_EmitterOrder ==
    /\ [](invoked = due)
    /\ [][/\ \A n \in EventNames :
                EmitterEmit(n)
                => /\ last'.result = "Ok"
                   /\ last'.fx = [i \in 1 .. Len(RegisteredUnder(n)) |->
                                     Listener(RegisteredUnder(n)[i])]
                   /\ \A l \in DOMAIN invoked :
                         invoked'[l] = invoked[l] + (IF registered[l] = n THEN 1 ELSE 0)
                   /\ listeners' = listeners
          /\ \A n \in EventNames :
                /\ RegisteredUnder(n) # <<>> => n \in DOMAIN listeners
                /\ n \in DOMAIN listeners
                      => /\ n \in DOMAIN listeners'
                         /\ listeners[n] = RegisteredUnder(n)
                         /\ SubSeq(listeners'[n], 1, Len(listeners[n])) = listeners[n]]_vars

(* An emit has run two listeners of one name for the second time, and a    *)
(* third listener, of the other name, has never run.                       *)
C5_Witness ==
    /\ last.op = "emit" /\ Len(last.fx) = 2
    /\ Len(registered) = 3
    /\ \E l \in DOMAIN invoked : invoked[l] = 0
    /\ Cardinality({l \in DOMAIN invoked : invoked[l] = 2}) = 2

(* C6: a listener registered for Click has run as many times as click()    *)
(* has succeeded since it was registered, a double_click counting as the   *)
(* clicks it makes and making no second click when the first fails.  In a  *)
(* click the listeners run only after the left-down and the left-up have   *)
(* both been injected; a click that fails with OutOfBounds injects nothing *)
(* and runs no listener; move_to, move_relative, drag_and_drop,            *)
(* right_click, multi_click and the scroll operations run no listener.     *)
C6_ClickListeners ==
    /\ [](invoked = due)
    /\ [][/\ \A i \in DOMAIN last'.fx :
                last'.fx[i].call = "listener"
                => \E j \in 2 .. (i - 1) :
                      /\ last'.fx[j - 1].call = "mouse_event"
                      /\ last'.fx[j - 1].flags = "LEFTDOWN"
                      /\ last'.fx[j].call = "mouse_event"
                      /\ last'.fx[j].flags = "LEFTUP"
                      /\ \A k \in (j + 1) .. i : last'.fx[k].call = "listener"
          /\ (last'.op = "click" /\ Click)
                => /\ last'.result = "Ok"
                      => /\ SubSeq(last'.fx, 3, Len(last'.fx))
                               = [i \in 1 .. Len(invoked) |-> Listener(i)]
                         /\ \A l \in DOMAIN invoked : invoked'[l] = invoked[l] + 1
                   /\ last'.result = "OutOfBounds"
                      => last'.fx = <<>> /\ invoked' = invoked
          /\ \A scr2 \in Screens :
                (last'.op = "double_click" /\ DoubleClick(scr2))
                => /\ is_out_of_bounds(position, screen)
                      => /\ last'.result = "OutOfBounds"
                         /\ last'.fx = <<>> /\ invoked' = invoked
                   /\ (~is_out_of_bounds(position, screen)
                         /\ is_out_of_bounds(position, scr2))
                      => /\ last'.result = "OutOfBounds"
                         /\ \A l \in DOMAIN invoked : invoked'[l] = invoked[l] + 1
                   /\ last'.result = "Ok"
                      => \A l \in DOMAIN invoked : invoked'[l] = invoked[l] + 2
          /\ last'.op \in {"move_to", "move_relative", "drag_and_drop", "right_click",
                           "multi_click", "scroll", "scroll_horizontal",
                           "scroll_with_delay"}
                => /\ invoked' = invoked
                   /\ \A i \in DOMAIN last'.fx : last'.fx[i].call # "listener"]_vars

(* A double_click whose first click succeeded and whose second found the   *)
(* pointer off the screen: the listener has run once.                      *)
C6_Witness ==
    /\ last.op = "double_click" /\ last.result = "OutOfBounds"
    /\ Len(invoked) = 1 /\ invoked[1] = 1

(* C7: drag_and_drop(dx, dy) from p succeeds only if p and p + (dx, dy)    *)
(* are both on the screen, and then injects a left-down at p and a left-up *)
(* at p + (dx, dy) and leaves current_position at p + (dx, dy); if either  *)
(* is off the screen it returns OutOfBounds, injects nothing and leaves    *)
(* current_position at p.                                                  *)
C7_DragAndDrop ==
    [][\A d \in Offsets, checks \in BOOLEAN :
          DragAndDrop(d, checks)
          => IF is_out_of_bounds(position, screen) \/ OffScreen(position, d, screen)
             THEN /\ last'.result = "OutOfBounds"
                  /\ last'.fx = <<>>
                  /\ position' = position
             ELSE /\ last'.result = "Ok"
                  /\ last'.fx = <<mouse_event("LEFTDOWN", position[1], position[2], 0),
                                  mouse_event("LEFTUP", position[1] + d[1],
                                              position[2] + d[2], 0)>>
                  /\ position' = Target(position, d)]_vars

(* C8: move_to overwrites current_position only when SetCursorPos          *)
(* succeeded: when the call is made and fails, move_to returns IoError and *)
(* current_position keeps the value it had.                                *)
C8_MoveToIoError ==
    [][\A x \in XCoords, y \in YCoords :
          (MoveTo(x, y, FALSE) /\ last'.fx # <<>>)
          => last'.result = "IoError" /\ position' = position]_vars

(* C9: hover(x, y, duration) returns InvalidInput exactly when the         *)
(* duration is zero or x < 0 or y < 0, and move_in_circle(cx, cy, radius,  *)
(* duration) exactly when radius <= 0 or the duration is zero, durations   *)
(* shorter than a second included; a rejected call makes no move_to and    *)
(* leaves current_position as it was.                                      *)
C9_TimedInvalidInput ==
    [][/\ \A a \in HoverArgs :
             Hover(a[1], a[2], a[3])
             => /\ last'.result = "InvalidInput" <=> (a[3] = 0 \/ a[1] < 0 \/ a[2] < 0)
                /\ last'.result = "InvalidInput"
                      => /\ last'.fx = <<>> /\ timed' = Idle
                         /\ position' = position /\ osCursor' = osCursor
       /\ \A a \in CircleArgs :
             MoveInCircle(a[1], a[2], a[3])
             => /\ last'.result = "InvalidInput" <=> (a[2] <= 0 \/ a[3] = 0)
                /\ last'.result = "InvalidInput"
                      => /\ last'.fx = <<>> /\ timed' = Idle
                         /\ position' = position /\ osCursor' = osCursor]_vars

(* C10: an accepted hover(x, y, duration), after any number of turns of    *)
(* its loop: when it returns Ok its last move_to was to <<x, y>> and       *)
(* current_position is <<x, y>>; when a move_to of it fails, hover returns *)
(* that error at once, makes no further move_to, the final one included,   *)
(* and current_position is the target of the last turn that succeeded.     *)
C10_Hover ==
    /\ [](last.op = "hover"
             => /\ last.result # "running" => timed = Idle
                /\ last.fx # <<>> => position = <<last.fx[1].x, last.fx[1].y>>
                /\ (last.result = "running" /\ timed.ticks > 0)
                      => position = HoverPoint(timed.start, timed.x, timed.y, timed.at))
    /\ [][/\ \A a \in HoverArgs :
                (Hover(a[1], a[2], a[3]) /\ last'.result = "running")
                => timed'.x = a[1] /\ timed'.y = a[2] /\ timed'.start = position
          /\ (last.op = "hover" /\ last.result = "running" /\ timed' # timed)
                => \A osOk \in BOOLEAN :
                      /\ HoverEnd(osOk)
                            => LET out == move_to(position, screen, timed.x, timed.y, osOk)
                               IN  IF out.result = "Ok"
                                   THEN /\ last'.result = "Ok"
                                        /\ last'.fx = <<SetCursorPos(timed.x, timed.y, osOk)>>
                                        /\ position' = <<timed.x, timed.y>>
                                   ELSE /\ last'.result = out.result
                                        /\ last'.fx = last.fx
                                        /\ position' = position /\ osCursor' = osCursor
                                        /\ timed' = Idle
                      /\ \A num \in timed.at .. (2 * HoverDen(timed.start, timed.x, timed.y) - 1) :
                            HoverTick(num, osOk)
                            => LET p == HoverPoint(timed.start, timed.x, timed.y, num)
                                   out == move_to(position, screen, p[1], p[2], osOk)
                               IN  IF out.result = "Ok"
                                   THEN /\ last'.result = "running"
                                        /\ last'.fx = <<SetCursorPos(p[1], p[2], osOk)>>
                                        /\ position' = p
                                   ELSE /\ last'.result = out.result
                                        /\ last'.fx = last.fx
                                        /\ position' = position /\ osCursor' = osCursor
                                        /\ timed' = Idle]_vars

(* A hover whose first turn moved the pointer has failed on a later        *)
(* move_to, the screen having shrunk in between.                           *)
C10_Witness ==
    /\ last.op = "hover" /\ last.result = "OutOfBounds"
    /\ last.fx # <<>>
    /\ position = <<last.fx[1].x, last.fx[1].y>>

(* C11: with the pointer on the screen, scroll_with_delay(amount, delay)   *)
(* returns Ok for every i32 amount, 0 and the least i32 included, having   *)
(* injected exactly |amount| wheel events, each of delta +1 when amount > 0 *)
(* and -1 when amount < 0 (none when amount = 0), so that the deltas sum   *)
(* to amount; with the pointer off the screen it returns OutOfBounds and   *)
(* injects nothing.                                                        *)
C11_ScrollWithDelay ==
    [][\A amount \in DelayAmounts, checks \in BOOLEAN :
          ScrollWithDelay(amount, checks)
          => IF is_out_of_bounds(position, screen)
             THEN last'.result = "OutOfBounds" /\ last'.fx = <<>>
             ELSE /\ last'.result = "Ok"
                  /\ amount >= 0 => Len(last'.fx) = amount
                  /\ amount < 0 => Len(last'.fx) + amount = 0
                  /\ \A i \in DOMAIN last'.fx :
                        last'.fx[i] = mouse_event("WHEEL", position[1], position[2],
                                                  signum(amount))]_vars

(* C12: with every OS call succeeding and nothing but the controller       *)
(* moving the cursor, current_position is the position the OS holds the    *)
(* cursor at, after any sequence of operations: whatever changes           *)
(* current_position also sets the cursor there.                            *)
C12_CacheCoherence == position = osCursor

(* C13: when the controller is built with the cursor on the screen and the *)
(* screen keeps its extents, current_position is on the screen in every    *)
(* reachable state (0 <= x <= width, 0 <= y <= height); so click,          *)
(* double_click, multi_click, right_click, scroll and scroll_with_delay    *)
(* never return OutOfBounds, and no operation returns ConversionError.     *)
C13_InBounds ==
    /\ position[1] >= 0 /\ position[1] <= screen[1]
    /\ position[2] >= 0 /\ position[2] <= screen[2]
    /\ last.op \in {"click", "double_click", "multi_click", "right_click",
                    "scroll", "scroll_with_delay"}
          => last.result # "OutOfBounds"
    /\ last.result # "ConversionError"

(* A click has succeeded at the far corner of the screen, where a          *)
(* drag_and_drop had left the pointer.                                     *)
C13_Witness ==
    /\ last.op = "click" /\ last.result = "Ok"
    /\ position = <<screen[1], screen[2]>>
    /\ position # osCursor

====
